---- MODULE Spec2Model ----
(***************************************************************************)
(* Model of the ssh-analysis log pipeline (src/ssh_analysis):               *)
(*   parse_logs -> add_log_entry (+ lookup_ip) -> df_from_parsed_logs.      *)
(*                                                                         *)
(* Text representation.  A character is a one-character string.  A token   *)
(* is a non-empty sequence of characters holding no white space.  A log    *)
(* line is a sequence of tokens: the line's text is its tokens joined by   *)
(* single blanks.  Python's None is the empty sequence << >> and a present *)
(* optional value v is << v >>.                                            *)
(***************************************************************************)
EXTENDS Integers, Sequences, FiniteSets, TLC

(***************************************************************************)
(* Characters and numbers                                                  *)
(***************************************************************************)
Digits == {"0", "1", "2", "3", "4", "5", "6", "7", "8", "9"}

Letters ==
    {"a", "b", "c", "d", "e", "f", "g", "h", "i", "j", "k", "l", "m",
     "n", "o", "p", "q", "r", "s", "t", "u", "v", "w", "x", "y", "z",
     "A", "B", "C", "D", "E", "F", "G", "H", "I", "J", "K", "L", "M",
     "N", "O", "P", "Q", "R", "S", "T", "U", "V", "W", "X", "Y", "Z"}

\* The characters the regular expression class \w accepts.
WordChars == Letters \cup Digits \cup {"_"}

DigitVal(c) ==
    CASE c = "0" -> 0 [] c = "1" -> 1 [] c = "2" -> 2 [] c = "3" -> 3
      [] c = "4" -> 4 [] c = "5" -> 5 [] c = "6" -> 6 [] c = "7" -> 7
      [] c = "8" -> 8 [] c = "9" -> 9

\* \d+ over a whole token
IsDigitsTok(t) == Len(t) >= 1 /\ \A i \in 1..Len(t) : t[i] \in Digits

\* \w+ over a whole token
IsWordTok(t) == Len(t) >= 1 /\ \A i \in 1..Len(t) : t[i] \in WordChars

\* int(s) for a string of decimal digits
RECURSIVE ToInt(_)
ToInt(t) ==
    IF Len(t) = 0 THEN 0
    ELSE 10 * ToInt(SubSeq(t, 1, Len(t) - 1)) + DigitVal(t[Len(t)])

\* s.split(sep) for a one-character separator
RECURSIVE Split(_, _)
Split(t, sep) ==
    IF \A i \in 1..Len(t) : t[i] # sep THEN << t >>
    ELSE LET p == CHOOSE i \in 1..Len(t) :
                      t[i] = sep /\ \A j \in 1..(i - 1) : t[j] # sep
         IN  << SubSeq(t, 1, p - 1) >> \o Split(SubSeq(t, p + 1, Len(t)), sep)

\* " ".join(tokens)
RECURSIVE Join(_)
Join(toks) ==
    IF Len(toks) = 0 THEN << >>
    ELSE IF Len(toks) = 1 THEN toks[1]
    ELSE toks[1] \o << " " >> \o Join(Tail(toks))

\* the longest prefix of t made of digits (what a trailing \d+ consumes)
RECURSIVE DigitPrefix(_)
DigitPrefix(t) ==
    IF Len(t) = 0 \/ t[1] \notin Digits THEN << >>
    ELSE << t[1] >> \o DigitPrefix(Tail(t))

EndsWith(t, s) ==
    Len(t) >= Len(s) /\ SubSeq(t, Len(t) - Len(s) + 1, Len(t)) = s

(***************************************************************************)
(* PATTERN and re.match                                                    *)
(***************************************************************************)
kwFailed == << "F", "a", "i", "l", "e", "d" >>

kwAccepted == << "A", "c", "c", "e", "p", "t", "e", "d" >>

kwPassword == << "p", "a", "s", "s", "w", "o", "r", "d" >>

kwFor == << "f", "o", "r" >>

kwInvalid == << "i", "n", "v", "a", "l", "i", "d" >>

kwUser == << "u", "s", "e", "r" >>

kwFrom == << "f", "r", "o", "m" >>

kwPort == << "p", "o", "r", "t" >>

\* \d+:\d+:\d+ over a whole token
IsTimeTok(t) ==
    LET p == Split(t, ":")
    IN  Len(p) = 3 /\ \A i \in 1..3 : IsDigitsTok(p[i])

\* (\w+\s\d+\s\d+:\d+:\d+)\s at the start of the line
HeadMatches(line) ==
    /\ Len(line) >= 4
    /\ IsWordTok(line[1])
    /\ IsDigitsTok(line[2])
    /\ IsTimeTok(line[3])

\* .*?(Failed|Accepted)\spassword\sfor\s : the outcome word ends token k
OutcomeAt(line, k) ==
    /\ k >= 4
    /\ k + 2 <= Len(line)
    /\ (EndsWith(line[k], kwFailed) \/ EndsWith(line[k], kwAccepted))
    /\ line[k + 1] = kwPassword
    /\ line[k + 2] = kwFor

\* (.+?)\sfrom\s(.+)\sport\s(\d+) with the user field starting at token u:
\* the pairs <<v, w>> (user = tokens u..v, address = tokens v+2..w)
TailSplits(line, u) ==
    { vw \in (u..Len(line)) \X (u..Len(line)) :
         /\ vw[1] + 1 <= Len(line)
         /\ line[vw[1] + 1] = kwFrom
         /\ vw[2] >= vw[1] + 2
         /\ vw[2] + 2 <= Len(line)
         /\ line[vw[2] + 1] = kwPort
         /\ DigitPrefix(line[vw[2] + 2]) # << >> }

\* the split the backtracking search finds first: the user field is lazy
\* (least v), the address field greedy (greatest w)
FirstSplit(S) ==
    CHOOSE vw \in S :
        \A o \in S : vw[1] < o[1] \/ (vw[1] = o[1] /\ vw[2] >= o[2])

\* (invalid\suser\s)? taken at tokens k + 3 and k + 4
MarkerAt(line, k) ==
    /\ k + 4 <= Len(line)
    /\ line[k + 3] = kwInvalid
    /\ line[k + 4] = kwUser

\* the ways the rest of the pattern matches once the outcome word is at k:
\* the optional group is tried present first, absent second
WithMarker(line, k) ==
    IF MarkerAt(line, k) THEN TailSplits(line, k + 5) ELSE {}

WithoutMarker(line, k) == TailSplits(line, k + 3)

OutcomePlaces(line) ==
    { k \in 4..Len(line) :
         OutcomeAt(line, k)
         /\ (WithMarker(line, k) # {} \/ WithoutMarker(line, k) # {}) }

GroupsAt(line, k) ==
    LET marked == WithMarker(line, k) # {}
        u      == IF marked THEN k + 5 ELSE k + 3
        vw     == FirstSplit(IF marked THEN WithMarker(line, k)
                                       ELSE WithoutMarker(line, k))
    IN  [ g1 |-> Join(SubSeq(line, 1, 3)),
          g2 |-> IF EndsWith(line[k], kwFailed) THEN kwFailed ELSE kwAccepted,
          g3 |-> IF marked THEN << Join(<< kwInvalid, kwUser >>) \o << " " >> >>
                           ELSE << >>,
          g4 |-> Join(SubSeq(line, u, vw[1])),
          g5 |-> Join(SubSeq(line, vw[1] + 2, vw[2])),
          g6 |-> DigitPrefix(line[vw[2] + 2]),
          userFrom |-> u,
          userTo   |-> vw[1] ]

\* re.match(PATTERN, line): << >> for no match, else << groups >>.  .*? is
\* lazy, so the first place of the outcome word that lets the rest match wins.
re_match(line) ==
    IF ~HeadMatches(line) \/ OutcomePlaces(line) = {} THEN << >>
    ELSE LET k == CHOOSE x \in OutcomePlaces(line) :
                      \A y \in OutcomePlaces(line) : x <= y
         IN  << GroupsAt(line, k) >>

\* MATCH_MAP: field name -> group number
MATCH_MAP ==
    [ timestamp |-> 1, validLoginAttempt |-> 2, usernameIsValid |-> 3,
      user |-> 4, ipAddress |-> 5, port |-> 6 ]

\* match[n]
Group(m, n) ==
    CASE n = 1 -> m.g1 [] n = 2 -> m.g2 [] n = 3 -> m.g3
      [] n = 4 -> m.g4 [] n = 5 -> m.g5 [] n = 6 -> m.g6

(***************************************************************************)
(* datetime.strptime(text, "%b %d %H:%M:%S").replace(year=2022) and        *)
(* Timestamp.FromDatetime                                                  *)
(***************************************************************************)
FallbackYear == 2022

StrptimeYear == 1900

MonthAbbr ==
    << << "J", "a", "n" >>, << "F", "e", "b" >>, << "M", "a", "r" >>,
       << "A", "p", "r" >>, << "M", "a", "y" >>, << "J", "u", "n" >>,
       << "J", "u", "l" >>, << "A", "u", "g" >>, << "S", "e", "p" >>,
       << "O", "c", "t" >>, << "N", "o", "v" >>, << "D", "e", "c" >> >>

IsLeap(y) == y % 4 = 0 /\ (y % 100 # 0 \/ y % 400 = 0)

DaysInMonth(y, m) ==
    IF m = 2 THEN (IF IsLeap(y) THEN 29 ELSE 28)
    ELSE IF m \in {4, 6, 9, 11} THEN 30 ELSE 31

RECURSIVE DaysBeforeMonth(_, _)
DaysBeforeMonth(y, m) ==
    IF m = 1 THEN 0 ELSE DaysBeforeMonth(y, m - 1) + DaysInMonth(y, m - 1)

\* date.toordinal(): 1 for 0001-01-01
Ordinal(y, m, d) ==
    LET p == y - 1
    IN  p * 365 + (p \div 4) - (p \div 100) + (p \div 400)
          + DaysBeforeMonth(y, m) + d

\* a directive that takes one or two digits and a greatest value
TwoDigits(t, lo, hi) ==
    /\ IsDigitsTok(t)
    /\ Len(t) <= 2
    /\ ToInt(t) >= lo
    /\ ToInt(t) <= hi

\* strptime and the datetime constructor: << >> when either raises
\* ValueError, else << [month, day, hour, minute, second] >> of year 1900.
\* Month names are matched here in their capitalised form only.
strptime(text) ==
    LET parts == Split(text, " ")
        hms   == IF Len(parts) = 3 THEN Split(parts[3], ":") ELSE << >>
        ok    == /\ Len(parts) = 3
                 /\ \E i \in 1..12 : MonthAbbr[i] = parts[1]
                 /\ TwoDigits(parts[2], 1, 31)
                 /\ Len(hms) = 3
                 /\ TwoDigits(hms[1], 0, 23)
                 /\ TwoDigits(hms[2], 0, 59)
                 /\ TwoDigits(hms[3], 0, 61)
        mon   == CHOOSE i \in 1..12 : MonthAbbr[i] = parts[1]
    IN  IF ~ok THEN << >>
        ELSE IF ToInt(parts[2]) > DaysInMonth(StrptimeYear, mon)
                  \/ ToInt(hms[3]) > 59 THEN << >>
        ELSE << [ year |-> StrptimeYear, month |-> mon,
                  day |-> ToInt(parts[2]), hour |-> ToInt(hms[1]),
                  minute |-> ToInt(hms[2]), second |-> ToInt(hms[3]) ] >>

\* datetime.replace(year=...): << >> when the day does not exist in that year
replace_year(d, y) ==
    IF d.day > DaysInMonth(y, d.month) THEN << >>
    ELSE << [ d EXCEPT !.year = y ] >>

\* FromDatetime that takes the naive datetime for local time, one hour
\* ahead of UTC
FromDatetime_LocalTime(d) ==
    (Ordinal(d.year, d.month, d.day) - Ordinal(1970, 1, 1)) * 86400
      + d.hour * 3600 + d.minute * 60 + d.second - 3600

\* Timestamp.FromDatetime of a naive datetime: seconds since 1970-01-01
FromDatetime(d) ==
    (Ordinal(d.year, d.month, d.day) - Ordinal(1970, 1, 1)) * 86400
      + d.hour * 3600 + d.minute * 60 + d.second

(***************************************************************************)
(* utils.safe_attr_get / safe_dict_get.  An object is a function from its  *)
(* attribute names to values, a dict a function from its keys to values.   *)
(***************************************************************************)
None == << >>

\* getattr(obj, attr), None on AttributeError
safe_attr_get(obj, attr) ==
    IF attr \in DOMAIN obj THEN obj[attr] ELSE None

\* d[k1][k2]..., None as soon as d is None or a key is missing; d is an
\* optional value, the result too
RECURSIVE safe_dict_get(_, _)
safe_dict_get(d, keys) ==
    IF Len(keys) = 0 THEN d
    ELSE IF d = None THEN None
    ELSE IF Head(keys) \notin DOMAIN d[1] THEN None
    ELSE safe_dict_get(<< d[1][Head(keys)] >>, Tail(keys))

(***************************************************************************)
(* The geo database and lookup_ip                                          *)
(***************************************************************************)
\* the parts of a database record that may each be present or absent
AttrParts == {"continent", "subdivisions", "location", "timezone"}

DictParts == {"country", "city", "postal"}

GeoParts == AttrParts \cup DictParts

\* the attribute values of a lookup result with the parts `present`;
\* latitude and longitude are whole degrees here
ResultAttrs(present) ==
    [ a \in (present \cap AttrParts) |->
        CASE a = "continent"    -> << "EU" >>
          [] a = "subdivisions" -> << << "11", "06" >> >>
          [] a = "location"     -> << << 38, -9 >> >>
          [] a = "timezone"     -> << "Europe/Lisbon" >> ]

\* result.get_info_dict() of a lookup result with the parts `present`
ResultInfoDict(present) ==
    [ k \in (present \cap DictParts) |->
        CASE k = "country" -> [ iso_code |-> "PT", names |-> [ en |-> "Portugal" ] ]
          [] k = "city"    -> [ names |-> [ en |-> "Lisbon" ] ]
          [] k = "postal"  -> [ code |-> "1000" ] ]

\* IPLookupData(): every field at its default
DefaultGeo ==
    [ lat |-> 0, lon |-> 0, continent |-> "", country_iso_code |-> "",
      country_name |-> "", subdivisions |-> << >>, timezone |-> "",
      postal_code |-> "", city |-> "" ]

\* str(x) inside an f-string, for an optional string
FmtStr(x) == IF x = None THEN "None" ELSE x[1]

\* a keyword argument of the IPLookupData constructor: None leaves the default
Kw(x, default) == IF x = None THEN default ELSE x[1]

\* socket.inet_pton(AF_INET, ip): dotted quad of decimal bytes
WellFormedIP(ip) ==
    LET q == Split(ip, ".")
    IN  /\ Len(q) = 4
        /\ \A i \in 1..4 :
              IsDigitsTok(q[i]) /\ Len(q[i]) <= 3 /\ ToInt(q[i]) <= 255

\* geolite2.lookup(ip_address) against the database db (a function from the
\* addresses it holds to the set of parts its record has): the library
\* raises ValueError for a string that is no IP address, returns None for an
\* address it does not hold
geolite2_lookup(ip, db) ==
    IF ~WellFormedIP(ip) THEN [ exc |-> "ValueError", result |-> None ]
    ELSE IF ip \notin DOMAIN db THEN [ exc |-> "", result |-> None ]
    ELSE [ exc |-> "", result |-> << db[ip] >> ]

\* lines 82-111: the record found, turned into an IPLookupData
ExtractGeo(present) ==
    LET result       == ResultAttrs(present)
        data         == << ResultInfoDict(present) >>
        continent    == safe_attr_get(result, "continent")
        country      == safe_dict_get(data, << "country" >>)
        iso          == safe_dict_get(country, << "iso_code" >>)
        country_name == FmtStr(safe_dict_get(country, << "names", "en" >>))
                          \o " (" \o FmtStr(iso) \o ")"
        subdivisions == safe_attr_get(result, "subdivisions")
        city         == safe_dict_get(data, << "city", "names", "en" >>)
        postal_code  == safe_dict_get(data, << "postal", "code" >>)
        location     == safe_attr_get(result, "location")
        timezone     == safe_attr_get(result, "timezone")
    IN  IF subdivisions = None
        THEN [ exc |-> "TypeError", geo |-> DefaultGeo ]
        ELSE [ exc |-> "",
               geo |->
                 [ lat |-> IF location # None THEN location[1][1] ELSE 0,
                   lon |-> IF location # None THEN location[1][2] ELSE 0,
                   continent |-> Kw(continent, ""),
                   country_iso_code |-> Kw(iso, ""),
                   country_name |-> country_name,
                   subdivisions |-> subdivisions[1],
                   timezone |-> Kw(timezone, ""),
                   postal_code |-> Kw(postal_code, ""),
                   city |-> Kw(city, "") ] ]

\* lookup_ip(ip_address): [exc, geo]; exc = "" when it returns
lookup_ip(ip_address, db) ==
    LET r == geolite2_lookup(ip_address, db)
    IN  IF r.exc # "" THEN [ exc |-> r.exc, geo |-> DefaultGeo ]
        ELSE IF r.result = None THEN [ exc |-> "", geo |-> DefaultGeo ]
        ELSE ExtractGeo(r.result[1])

(***************************************************************************)
(* add_log_entry                                                           *)
(***************************************************************************)
\* ssh_logs.logs.add(): a message with every field at its default; the
\* timestamp and ipLookupData sub-messages are unset (None)
DefaultLog ==
    [ timestamp |-> None, validLoginAttempt |-> FALSE,
      usernameIsValid |-> FALSE, user |-> << >>, ipAddress |-> << >>,
      port |-> << "0" >>, ipLookupData |-> None ]

\* int(text) of a digit string, kept as its decimal numeral without leading
\* zeros (a Python int has no width)
RECURSIVE PyInt(_)
PyInt(t) ==
    IF Len(t) > 1 /\ t[1] = "0" THEN PyInt(Tail(t)) ELSE t

\* the greatest value of the port field, an unsigned 32-bit integer
PortFieldMax == << "4", "2", "9", "4", "9", "6", "7", "2", "9", "5" >>

\* a <= b for two numerals of the same length
RECURSIVE NumeralLeq(_, _)
NumeralLeq(a, b) ==
    IF Len(a) = 0 THEN TRUE
    ELSE IF a[1] # b[1] THEN DigitVal(a[1]) < DigitVal(b[1])
    ELSE NumeralLeq(Tail(a), Tail(b))

\* whether assigning the integer n to log.port is accepted
PortFits(n) ==
    \/ Len(n) < Len(PortFieldMax)
    \/ (Len(n) = Len(PortFieldMax) /\ NumeralLeq(n, PortFieldMax))

\* ValidLoginAttemptOf comparing with the wrong outcome word
ValidLoginAttemptOf_Failed(m) ==
    IF Group(m, MATCH_MAP.validLoginAttempt) = kwFailed THEN TRUE ELSE FALSE

\* lines 125-127
ValidLoginAttemptOf(m) ==
    IF Group(m, MATCH_MAP.validLoginAttempt) = kwAccepted THEN TRUE ELSE FALSE

\* UsernameIsValidOf with the two branches swapped
UsernameIsValidOf_Swapped(m) ==
    IF Group(m, MATCH_MAP.usernameIsValid) # None THEN TRUE ELSE FALSE

\* lines 128-131
UsernameIsValidOf(m) ==
    IF Group(m, MATCH_MAP.usernameIsValid) # None THEN FALSE ELSE TRUE

\* add_log_entry(match, ssh_logs, match_map) with the geo database db:
\*   logs    the collection when the call ends (by return or by exception),
\*   exc     "" when it returns, else the exception raised,
\*   looked  the addresses handed to lookup_ip (none or one).
\* logs.add() appends the new message first; the fields are then set one by
\* one on the message inside the collection.
add_log_entry(m, ssh_logs, db) ==
    LET parsed == strptime(Group(m, MATCH_MAP.timestamp))
        dated  == IF parsed = None THEN None
                  ELSE replace_year(parsed[1], FallbackYear)
        log1   == IF dated = None THEN DefaultLog
                  ELSE [ DefaultLog EXCEPT !.timestamp = << FromDatetime(dated[1]) >> ]
        log2   == [ log1 EXCEPT !.validLoginAttempt = ValidLoginAttemptOf(m),
                                !.usernameIsValid = UsernameIsValidOf(m),
                                !.user = Group(m, MATCH_MAP.user),
                                !.ipAddress = Group(m, MATCH_MAP.ipAddress) ]
        port   == PyInt(Group(m, MATCH_MAP.port))
        log3   == [ log2 EXCEPT !.port = port ]
        geo    == lookup_ip(log3.ipAddress, db)
    IN  IF dated = None
        THEN [ logs |-> Append(ssh_logs, log1), exc |-> "ValueError",
               looked |-> << >> ]
        ELSE IF ~PortFits(port)
        THEN [ logs |-> Append(ssh_logs, log2), exc |-> "ValueError",
               looked |-> << >> ]
        ELSE IF geo.exc # ""
        THEN [ logs |-> Append(ssh_logs, log3), exc |-> geo.exc,
               looked |-> << log3.ipAddress >> ]
        ELSE [ logs |-> Append(ssh_logs,
                               [ log3 EXCEPT !.ipLookupData = << geo.geo >> ]),
               exc |-> "", looked |-> << log3.ipAddress >> ]

(***************************************************************************)
(* The log lines the sources are made of                                   *)
(***************************************************************************)
tMar == << "M", "a", "r" >>

tFeb == << "F", "e", "b" >>

tDec == << "D", "e", "c" >>

t27 == << "2", "7" >>

t30 == << "3", "0" >>

t31 == << "3", "1" >>

tTime1 == << "1", "3", ":", "0", "8", ":", "0", "9" >>

tTime2 == << "1", "3", ":", "0", "9", ":", "0", "0" >>

tTime3 == << "2", "3", ":", "5", "9", ":", "5", "9" >>

tHost == << "h", "o", "s", "t" >>

tSshd == << "s", "s", "h", "d", "[", "2", "]", ":" >>

tLogind == << "s", "y", "s", "t", "e", "m", "d", "-", "l", "o", "g", "i", "n", "d", "[", "1", "1", "1", "8", "]", ":" >>

tNew == << "N", "e", "w" >>

tSeat == << "s", "e", "a", "t" >>

tSeat0 == << "s", "e", "a", "t", "0", "." >>

tUbuntu == << "u", "b", "u", "n", "t", "u" >>

tRoot == << "r", "o", "o", "t" >>

tIpKnown == << "8", "5", ".", "2", "4", "5", ".", "1", "0", "7", ".", "4", "1" >>

tIpUnknown == << "1", ".", "2", ".", "3", ".", "4" >>

tIpPartial == << "8", ".", "8", ".", "8", ".", "8" >>

tBadHost == << "b", "a", "d", "h", "o", "s", "t" >>

t54259 == << "5", "4", "2", "5", "9" >>

t22 == << "2", "2" >>

t022 == << "0", "2", "2" >>

tBigPort == << "9", "9", "9", "9", "9", "9", "9", "9", "9", "9", "9" >>

tSsh2 == << "s", "s", "h", "2", ":" >>

\* "Mar 27 13:08:09 host sshd[2]: Accepted password for ubuntu from
\*  85.245.107.41 port 54259 ssh2:"
LineAccepted ==
    << tMar, t27, tTime1, tHost, tSshd, kwAccepted, kwPassword, kwFor,
       tUbuntu, kwFrom, tIpKnown, kwPort, t54259, tSsh2 >>

\* "Mar 27 13:09:00 host sshd[2]: Failed password for invalid user root from
\*  1.2.3.4 port 22"
LineInvalidUser ==
    << tMar, t27, tTime2, tHost, tSshd, kwFailed, kwPassword, kwFor,
       kwInvalid, kwUser, tRoot, kwFrom, tIpUnknown, kwPort, t22 >>

\* "Mar 27 13:08:09 host systemd-logind[1118]: New seat seat0."
LineNoAuth == << tMar, t27, tTime1, tHost, tLogind, tNew, tSeat, tSeat0 >>

\* the pattern is in the line, but not at its start
LineNotAtStart ==
    << tSshd, tMar, t27, tTime2, tHost, kwFailed, kwPassword, kwFor,
       tRoot, kwFrom, tIpUnknown, kwPort, t22 >>

\* a timestamp token that is no date: Feb 30
LineBadDate ==
    << tFeb, t30, tTime1, tHost, tSshd, kwFailed, kwPassword, kwFor,
       tRoot, kwFrom, tIpUnknown, kwPort, t22 >>

\* a port beyond the port field
LineBigPort ==
    << tMar, t27, tTime1, tHost, tSshd, kwAccepted, kwPassword, kwFor,
       tUbuntu, kwFrom, tIpUnknown, kwPort, tBigPort >>

\* a host name where the address stands
LineHostName ==
    << tMar, t27, tTime3, tHost, tSshd, kwFailed, kwPassword, kwFor,
       tRoot, kwFrom, tBadHost, kwPort, t22 >>

\* the marker words with no user name after them, in the last second of
\* the year
LineMarkerOnly ==
    << tDec, t31, tTime3, tHost, tSshd, kwFailed, kwPassword, kwFor,
       kwInvalid, kwUser, kwFrom, tIpUnknown, kwPort, t22 >>

\* an address whose database record has no subdivisions
LinePartialGeo ==
    << tMar, t27, tTime3, tHost, tSshd, kwAccepted, kwPassword, kwFor,
       tUbuntu, kwFrom, tIpPartial, kwPort, t022 >>

Lines ==
    { LineAccepted, LineInvalidUser, LineNoAuth, LineNotAtStart, LineBadDate,
      LineBigPort, LineHostName, LineMarkerOnly, LinePartialGeo }

\* the geo database of the parse runs: one address with a full record, one
\* with a record that lacks subdivisions; every other address is not held
GeoDB == (tIpKnown :> GeoParts) @@ (tIpPartial :> (GeoParts \ {"subdivisions"}))

(***************************************************************************)
(* df_from_parsed_logs                                                     *)
(***************************************************************************)
\* the year of the day number n (days since 1970-01-01)
YearOfDay(n) ==
    CHOOSE y \in 1970..2100 :
        /\ Ordinal(y, 1, 1) - Ordinal(1970, 1, 1) <= n
        /\ n < Ordinal(y + 1, 1, 1) - Ordinal(1970, 1, 1)

\* timestamp.dt.date of an instant given in seconds since 1970-01-01
DateOf(secs) ==
    LET n  == secs \div 86400
        y  == YearOfDay(n)
        yd == n - (Ordinal(y, 1, 1) - Ordinal(1970, 1, 1))
        m  == CHOOSE k \in 1..12 :
                  /\ DaysBeforeMonth(y, k) <= yd
                  /\ yd < DaysBeforeMonth(y, k) + DaysInMonth(y, k)
    IN  << y, m, yd - DaysBeforeMonth(y, m) + 1 >>

\* HourOf on a twelve-hour clock
HourOf_TwelveHour(secs) == (secs % 43200) \div 3600

\* timestamp.dt.hour
HourOf(secs) == (secs % 86400) \div 3600

\* the Monday that starts ISO week 1 of year y, as a day ordinal
IsoWeek1Monday(y) ==
    LET firstday     == Ordinal(y, 1, 1)
        firstweekday == (firstday + 6) % 7
    IN  IF firstweekday > 3 THEN firstday - firstweekday + 7
        ELSE firstday - firstweekday

\* timestamp.dt.isocalendar().week
WeekOf(secs) ==
    LET ymd   == DateOf(secs)
        today == Ordinal(ymd[1], ymd[2], ymd[3])
        w     == (today - IsoWeek1Monday(ymd[1])) \div 7
    IN  IF w < 0 THEN (today - IsoWeek1Monday(ymd[1] - 1)) \div 7 + 1
        ELSE IF w >= 52 /\ today >= IsoWeek1Monday(ymd[1] + 1) THEN 1
        ELSE w + 1

DigitChar(d) ==
    CASE d = 0 -> "0" [] d = 1 -> "1" [] d = 2 -> "2" [] d = 3 -> "3"
      [] d = 4 -> "4" [] d = 5 -> "5" [] d = 6 -> "6" [] d = 7 -> "7"
      [] d = 8 -> "8" [] d = 9 -> "9"

\* str(n) for n >= 0
RECURSIVE Str(_)
Str(n) ==
    IF n < 10 THEN << DigitChar(n) >>
    ELSE Str(n \div 10) \o << DigitChar(n % 10) >>

\* two digits, zero filled
Pad2(n) == IF n < 10 THEN << "0" >> \o Str(n) ELSE Str(n)

\* str(date): YYYY-MM-DD (for the four-digit years of the model)
DateStr(ymd) == Str(ymd[1]) \o << "-" >> \o Pad2(ymd[2]) \o << "-" >> \o Pad2(ymd[3])

\* RowOf without including_default_value_fields: a message whose
\* ipLookupData holds only default values gives a row without geo columns
RowOf_DropsDefaultGeo(log) ==
    IF log.ipLookupData[1] = DefaultGeo
    THEN [ timestamp |-> log.timestamp[1],
           validLoginAttempt |-> log.validLoginAttempt,
           usernameIsValid |-> log.usernameIsValid,
           user |-> log.user, ipAddress |-> log.ipAddress, port |-> log.port,
           date |-> DateStr(DateOf(log.timestamp[1])),
           week |-> Str(WeekOf(log.timestamp[1])),
           hour |-> Str(HourOf(log.timestamp[1])) ]
    ELSE [ timestamp |-> log.timestamp[1],
           validLoginAttempt |-> log.validLoginAttempt,
           usernameIsValid |-> log.usernameIsValid,
           user |-> log.user, ipAddress |-> log.ipAddress, port |-> log.port,
           lat |-> log.ipLookupData[1].lat, lon |-> log.ipLookupData[1].lon,
           continent |-> log.ipLookupData[1].continent,
           countryIsoCode |-> log.ipLookupData[1].country_iso_code,
           countryName |-> log.ipLookupData[1].country_name,
           subdivisions |-> log.ipLookupData[1].subdivisions,
           timezone |-> log.ipLookupData[1].timezone,
           postalCode |-> log.ipLookupData[1].postal_code,
           city |-> log.ipLookupData[1].city,
           date |-> DateStr(DateOf(log.timestamp[1])),
           week |-> Str(WeekOf(log.timestamp[1])),
           hour |-> Str(HourOf(log.timestamp[1])) ]

\* the row of one event: the message's fields, ipLookupData flattened into
\* its fields, and date, week and hour taken from the timestamp, as strings
RowOf(log) ==
    [ timestamp |-> log.timestamp[1],
      validLoginAttempt |-> log.validLoginAttempt,
      usernameIsValid |-> log.usernameIsValid,
      user |-> log.user, ipAddress |-> log.ipAddress, port |-> log.port,
      lat |-> log.ipLookupData[1].lat, lon |-> log.ipLookupData[1].lon,
      continent |-> log.ipLookupData[1].continent,
      countryIsoCode |-> log.ipLookupData[1].country_iso_code,
      countryName |-> log.ipLookupData[1].country_name,
      subdivisions |-> log.ipLookupData[1].subdivisions,
      timezone |-> log.ipLookupData[1].timezone,
      postalCode |-> log.ipLookupData[1].postal_code,
      city |-> log.ipLookupData[1].city,
      date |-> DateStr(DateOf(log.timestamp[1])),
      week |-> Str(WeekOf(log.timestamp[1])),
      hour |-> Str(HourOf(log.timestamp[1])) ]

\* RowsOf with the rows in reverse order
RowsOf_Reversed(logs) ==
    [ i \in 1..Len(logs) |-> RowOf(logs[Len(logs) + 1 - i]) ]

\* one JSON line per message, in the order of ssh_logs.logs, read back as
\* one row per line
RowsOf(logs) == [ i \in 1..Len(logs) |-> RowOf(logs[i]) ]

\* df_from_parsed_logs(ssh_logs): with no message there is no JSON line,
\* the frame read back has no column, and df["ipLookupData"] raises KeyError
df_from_parsed_logs(logs) ==
    IF Len(logs) = 0 THEN [ exc |-> "KeyError", rows |-> << >> ]
    ELSE [ exc |-> "", rows |-> RowsOf(logs) ]

(***************************************************************************)
(* State                                                                   *)
(***************************************************************************)
VARIABLES
    logfile_path,  \* argument: "None", "falsy" (not None, but false when
                   \* tested), "valid" (names a file), "missing" (no file)
    logfile,       \* argument: "None", "falsy", "valid" (an open stream)
    source,        \* the lines of the file or stream
    pc,            \* "idle", "scanning", "returned", "raised", "projected"
    idx,           \* lines consumed by the for loop
    ssh_logs,      \* the SSHLogs collection
    origin,        \* origin[i]: the line number the i-th message came from
    lookups,       \* the addresses handed to lookup_ip, in call order
    opened,        \* whether open(logfile_path) was called
    result,        \* parse_logs' return value: "" (none yet), "None", "SSHLogs"
    exc,           \* the exception that ended the run, "" for none
    df,            \* the rows of the last table df_from_parsed_logs returned
    projections,   \* calls of df_from_parsed_logs made
    g_pc,          \* lookup_ip alone: "idle", "returned", "raised"
    g_ip,          \* lookup_ip alone: the address
    g_db,          \* lookup_ip alone: the database
    g_out,         \* lookup_ip alone: what lookup_ip gave
    f_source,      \* get_US_fips_data_from_lat_lon: "fcc_api" or "csv"
    f_df,          \* its df argument: None or << the rows >>
    f_csv,         \* its csv_path argument: "None", "valid", "missing"
    f_extra,       \* whether the call passes progress_bar and status_text
    f_pc,          \* "idle", "fetching", "returned", "raised"
    f_i,           \* rows of df_us that get_fips has been applied to
    f_io,          \* the file reads and network requests made, in order
    f_exc,         \* the exception that ended the call, "" for none
    f_out,         \* the rows of df_us
    p_bar,         \* update_progress_bar: progress_bar, "None" or "sink"
    p_text,        \* its status_text argument, "None" or "sink"
    p_i,           \* its argument i
    p_n,           \* its argument num_lines
    p_pc,          \* "idle", "returned", "raised"
    p_calls,       \* the calls made on the two sinks, in order
    p_exc          \* the exception that ended the call, "" for none

parseVars ==
    << logfile_path, logfile, source, pc, idx, ssh_logs, origin, lookups,
       opened, result, exc, df, projections >>

geoVars == << g_pc, g_ip, g_db, g_out >>

fipsVars ==
    << f_source, f_df, f_csv, f_extra, f_pc, f_i, f_io, f_exc, f_out >>

progVars == << p_bar, p_text, p_i, p_n, p_pc, p_calls, p_exc >>

sideVars == << fipsVars, progVars >>

vars == << parseVars, geoVars, sideVars >>

\* greatest number of lines of a source
MaxLines == 3

\* greatest number of calls of df_from_parsed_logs on one collection
MaxProjections == 2

RECURSIVE SeqsUpTo(_, _)
SeqsUpTo(S, n) ==
    IF n = 0 THEN { << >> }
    ELSE LET shorter == SeqsUpTo(S, n - 1)
         IN  shorter \cup { Append(q, x) : q \in shorter, x \in S }

Sources == SeqsUpTo(Lines, MaxLines)

GeoIdle ==
    /\ g_pc = "idle"
    /\ g_ip = << >>
    /\ g_db = << >>
    /\ g_out = [ exc |-> "", geo |-> DefaultGeo ]

FipsIdle ==
    /\ f_source = "fcc_api"
    /\ f_df = None
    /\ f_csv = "None"
    /\ f_extra = FALSE
    /\ f_pc = "idle"
    /\ f_i = 0
    /\ f_io = << >>
    /\ f_exc = ""
    /\ f_out = << >>

ProgIdle ==
    /\ p_bar = "None"
    /\ p_text = "None"
    /\ p_i = 0
    /\ p_n = 0
    /\ p_pc = "idle"
    /\ p_calls = << >>
    /\ p_exc = ""

SideIdle == FipsIdle /\ ProgIdle

ParseIdle ==
    /\ logfile_path = "None"
    /\ logfile = "None"
    /\ source = << >>
    /\ pc = "idle"
    /\ idx = 0
    /\ ssh_logs = << >>
    /\ origin = << >>
    /\ lookups = << >>
    /\ opened = FALSE
    /\ result = ""
    /\ exc = ""
    /\ df = << >>
    /\ projections = 0

Init ==
    /\ logfile_path \in {"None", "falsy", "valid", "missing"}
    /\ logfile \in {"None", "falsy", "valid"}
    /\ source \in Sources
    /\ pc = "idle"
    /\ idx = 0
    /\ ssh_logs = << >>
    /\ origin = << >>
    /\ lookups = << >>
    /\ opened = FALSE
    /\ result = ""
    /\ exc = ""
    /\ df = << >>
    /\ projections = 0
    /\ GeoIdle
    /\ SideIdle

(***************************************************************************)
(* parse_logs                                                              *)
(***************************************************************************)
\* ArgsRejected that only rejects the call with neither argument
ArgsRejected_NeitherOnly(path, file) == path = "None" /\ file = "None"

\* line 149: not ((logfile_path is None) ^ (logfile is None))
ArgsRejected(path, file) == ~((path = "None") # (file = "None"))

\* lines 149-152: the argument check raises ValueError
CallRejected ==
    /\ pc = "idle"
    /\ ArgsRejected(logfile_path, logfile)
    /\ pc' = "raised"
    /\ exc' = "ValueError:args"
    /\ UNCHANGED << logfile_path, logfile, source, idx, ssh_logs, origin,
                    lookups, opened, result, df, projections, geoVars, sideVars >>

\* lines 165-166: logfile_path is true, the file is opened
CallOpenPath ==
    /\ pc = "idle"
    /\ ~ArgsRejected(logfile_path, logfile)
    /\ logfile_path \in {"valid", "missing"}
    /\ opened' = TRUE
    /\ IF logfile_path = "valid"
       THEN pc' = "scanning" /\ exc' = exc
       ELSE pc' = "raised" /\ exc' = "FileNotFoundError"
    /\ UNCHANGED << logfile_path, logfile, source, idx, ssh_logs, origin,
                    lookups, result, df, projections, geoVars, sideVars >>

\* lines 169-170: logfile_path is false, logfile is true
CallStream ==
    /\ pc = "idle"
    /\ ~ArgsRejected(logfile_path, logfile)
    /\ logfile_path \in {"None", "falsy"}
    /\ logfile = "valid"
    /\ pc' = "scanning"
    /\ UNCHANGED << logfile_path, logfile, source, idx, ssh_logs, origin,
                    lookups, opened, result, exc, df, projections, geoVars, sideVars >>

\* lines 165-170: neither if is taken and the function ends without a
\* return statement
CallFallsThrough ==
    /\ pc = "idle"
    /\ ~ArgsRejected(logfile_path, logfile)
    /\ logfile_path \in {"None", "falsy"}
    /\ logfile \in {"None", "falsy"}
    /\ pc' = "returned"
    /\ result' = "None"
    /\ UNCHANGED << logfile_path, logfile, source, idx, ssh_logs, origin,
                    lookups, opened, exc, df, projections, geoVars, sideVars >>

\* ParseLine with the collection created inside the loop: a line that does
\* not match leaves an empty collection
ParseLine_Resets(line, logs) ==
    LET m == re_match(line)
    IN  IF m # None THEN add_log_entry(m[1], logs, GeoDB)
        ELSE [ logs |-> << >>, exc |-> "", looked |-> << >> ]

\* ParseLine with the new message put at the front of the collection
ParseLine_Prepends(line, logs) ==
    LET m == re_match(line)
        r == add_log_entry(m[1], << >>, GeoDB)
    IN  IF m # None
        THEN [ logs |-> r.logs \o logs, exc |-> r.exc, looked |-> r.looked ]
        ELSE [ logs |-> logs, exc |-> "", looked |-> << >> ]

\* lines 158-162: one pass of the for loop over the line `line`, from the
\* collection `logs`: [logs, exc, looked]
ParseLine(line, logs) ==
    LET m == re_match(line)
    IN  IF m # None THEN add_log_entry(m[1], logs, GeoDB)
        ELSE [ logs |-> logs, exc |-> "", looked |-> << >> ]

\* the for loop takes the next line
ScanLine ==
    /\ pc = "scanning"
    /\ idx < Len(source)
    /\ LET r == ParseLine(source[idx + 1], ssh_logs)
       IN  /\ ssh_logs' = r.logs
           /\ lookups' = lookups \o r.looked
           /\ origin' = IF Len(r.logs) > Len(ssh_logs)
                        THEN Append(origin, idx + 1) ELSE origin
           /\ exc' = r.exc
           /\ pc' = IF r.exc = "" THEN "scanning" ELSE "raised"
    /\ idx' = idx + 1
    /\ UNCHANGED << logfile_path, logfile, source, opened, result, df,
                    projections, geoVars, sideVars >>

\* line 163: the stream is exhausted, parse returns the collection
Return ==
    /\ pc = "scanning"
    /\ idx = Len(source)
    /\ pc' = "returned"
    /\ result' = "SSHLogs"
    /\ UNCHANGED << logfile_path, logfile, source, idx, ssh_logs, origin,
                    lookups, opened, exc, df, projections, geoVars, sideVars >>

\* the caller hands the returned collection to df_from_parsed_logs
Project ==
    /\ pc \in {"returned", "projected"}
    /\ result = "SSHLogs"
    /\ projections < MaxProjections
    /\ projections' = projections + 1
    /\ LET t == df_from_parsed_logs(ssh_logs)
       IN  /\ df' = t.rows
           /\ exc' = t.exc
           /\ pc' = IF t.exc = "" THEN "projected" ELSE "raised"
    /\ UNCHANGED << logfile_path, logfile, source, idx, ssh_logs, origin,
                    lookups, opened, result, geoVars, sideVars >>

Next ==
    \/ CallRejected
    \/ CallOpenPath
    \/ CallStream
    \/ CallFallsThrough
    \/ ScanLine
    \/ Return
    \/ Project

Spec == Init /\ [][Next]_vars

(***************************************************************************)
(* lookup_ip on its own: any address, any database record                  *)
(***************************************************************************)
\* the addresses tried: held or not by the database, private, not an address
Addresses == { tIpKnown, tIpUnknown, << "1", "0", ".", "0", ".", "0", ".", "1" >>,
               tBadHost, << "1", ".", "2", ".", "3" >> }

\* a database that holds at most the address asked for, with any record
Databases(ip) ==
    { << >> } \cup { (ip :> present) : present \in SUBSET GeoParts }

InitGeo ==
    /\ logfile_path = "None"
    /\ logfile = "None"
    /\ source = << >>
    /\ pc = "idle"
    /\ idx = 0
    /\ ssh_logs = << >>
    /\ origin = << >>
    /\ lookups = << >>
    /\ opened = FALSE
    /\ result = ""
    /\ exc = ""
    /\ df = << >>
    /\ projections = 0
    /\ g_pc = "idle"
    /\ g_ip \in Addresses
    /\ g_db \in Databases(g_ip)
    /\ g_out = [ exc |-> "", geo |-> DefaultGeo ]
    /\ SideIdle

LookupIp ==
    /\ g_pc = "idle"
    /\ g_out' = lookup_ip(g_ip, g_db)
    /\ g_pc' = IF g_out'.exc = "" THEN "returned" ELSE "raised"
    /\ UNCHANGED << g_ip, g_db, parseVars, sideVars >>

NextGeo == LookupIp

SpecGeo == InitGeo /\ [][NextGeo]_vars

(***************************************************************************)
(* parse_logs over one line, for every timestamp token of a set            *)
(***************************************************************************)
\* the day tokens tried: one and two digits, the last days of the months
StampDays ==
    { << "1" >>, << "0", "9" >>, << "2", "8" >>, << "2", "9" >>, t30, t31 }

\* the time tokens tried: midnight, the last second of the day, and a
\* second 60 that the format accepts and datetime does not
StampTimes ==
    { << "0", "0", ":", "0", "0", ":", "0", "0" >>, tTime1, tTime3,
      << "2", "3", ":", "5", "9", ":", "6", "0" >> }

\* "<mon> <day> <time> host sshd[2]: Failed password for root from 1.2.3.4
\*  port 22"
StampLine(mon, day, time) ==
    << mon, day, time, tHost, tSshd, kwFailed, kwPassword, kwFor,
       tRoot, kwFrom, tIpUnknown, kwPort, t22 >>

StampSources ==
    { << StampLine(MonthAbbr[k], day, time) >> :
         k \in 1..12, day \in StampDays, time \in StampTimes }

InitTime ==
    /\ logfile_path \in {"None", "falsy", "valid", "missing"}
    /\ logfile \in {"None", "falsy", "valid"}
    /\ source \in StampSources
    /\ pc = "idle"
    /\ idx = 0
    /\ ssh_logs = << >>
    /\ origin = << >>
    /\ lookups = << >>
    /\ opened = FALSE
    /\ result = ""
    /\ exc = ""
    /\ df = << >>
    /\ projections = 0
    /\ GeoIdle
    /\ SideIdle

SpecTime == InitTime /\ [][Next]_vars

(***************************************************************************)
(* get_US_fips_data_from_lat_lon                                           *)
(***************************************************************************)
\* greatest number of rows of the df argument
MaxFipsRows == 2

\* the rows the df argument is made of: a US address, one of another
\* country, one of no known country
FipsRows ==
    { [ countryIsoCode |-> "US", lat |-> 38, lon |-> -77 ],
      [ countryIsoCode |-> "PT", lat |-> 38, lon |-> -9 ],
      [ countryIsoCode |-> "", lat |-> 0, lon |-> 0 ] }

\* the rows of the CSV file at csv_path, when there is one
CsvRows ==
    << [ countryIsoCode |-> "US", lat |-> 38, lon |-> -77,
         county_fips |-> "51059" ] >>

\* FipsArgsMissing that tests the df argument only
FipsArgsMissing_DfOnly(src, frame, csv) == src # "csv" /\ frame = None

\* lines 316 and 318-329: the argument that the data source needs is None
FipsArgsMissing(src, frame, csv) ==
    IF src = "csv" THEN csv = "None" ELSE frame = None

\* line 361: df[df["countryIsoCode"] == "US"]
RECURSIVE USRows(_)
USRows(rows) ==
    IF rows = << >> THEN << >>
    ELSE IF Head(rows).countryIsoCode = "US"
         THEN << Head(rows) >> \o USRows(Tail(rows))
         ELSE USRows(Tail(rows))

\* lines 334-359: get_fips(row) with the answer of the FCC service
get_fips(row) ==
    [ countryIsoCode |-> row.countryIsoCode, lat |-> row.lat,
      lon |-> row.lon, county_fips |-> "51059" ]

\* the call: the keywords are bound, then lines 316-330 and 361
FipsCall ==
    /\ f_pc = "idle"
    /\ IF f_extra
       THEN \* the signature has no progress_bar and no status_text
            /\ f_pc' = "raised"
            /\ f_exc' = "TypeError"
            /\ UNCHANGED << f_io, f_out >>
       ELSE IF FipsArgsMissing(f_source, f_df, f_csv)
       THEN /\ f_pc' = "raised"
            /\ f_exc' = "ValueError"
            /\ UNCHANGED << f_io, f_out >>
       ELSE IF f_source = "csv"
       THEN \* pd.read_csv(csv_path, ...)
            /\ f_io' = Append(f_io, "read_csv")
            /\ IF f_csv = "valid"
               THEN f_pc' = "returned" /\ f_exc' = f_exc /\ f_out' = CsvRows
               ELSE f_pc' = "raised" /\ f_exc' = "FileNotFoundError"
                      /\ f_out' = f_out
       ELSE /\ f_pc' = "fetching"
            /\ f_out' = USRows(f_df[1])
            /\ UNCHANGED << f_io, f_exc >>
    /\ UNCHANGED << f_source, f_df, f_csv, f_extra, f_i, progVars, parseVars,
                    geoVars >>

\* line 362: apply calls get_fips on the next row of df_us; the request is
\* answered, or answered with no result, or fails
FipsGetRow ==
    /\ f_pc = "fetching"
    /\ f_i < Len(f_out)
    /\ f_io' = Append(f_io, "get")
    /\ \E answer \in {"results", "no results", "unreachable"} :
          IF answer = "results"
          THEN /\ f_out' = [ f_out EXCEPT ![f_i + 1] = get_fips(f_out[f_i + 1]) ]
               /\ f_i' = f_i + 1
               /\ UNCHANGED << f_pc, f_exc >>
          ELSE /\ f_pc' = "raised"
               /\ f_exc' = IF answer = "no results" THEN "IndexError"
                           ELSE "ConnectionError"
               /\ UNCHANGED << f_out, f_i >>
    /\ UNCHANGED << f_source, f_df, f_csv, f_extra, progVars, parseVars,
                    geoVars >>

\* line 364: return df_us
FipsReturn ==
    /\ f_pc = "fetching"
    /\ f_i = Len(f_out)
    /\ f_pc' = "returned"
    /\ UNCHANGED << f_source, f_df, f_csv, f_extra, f_i, f_io, f_exc, f_out,
                    progVars, parseVars, geoVars >>

InitFips ==
    /\ ParseIdle
    /\ GeoIdle
    /\ ProgIdle
    /\ f_source \in {"fcc_api", "csv"}
    /\ f_df \in { None } \cup { << rows >> : rows \in SeqsUpTo(FipsRows, MaxFipsRows) }
    /\ f_csv \in {"None", "valid", "missing"}
    /\ f_extra \in BOOLEAN
    /\ f_pc = "idle"
    /\ f_i = 0
    /\ f_io = << >>
    /\ f_exc = ""
    /\ f_out = << >>

NextFips ==
    \/ FipsCall
    \/ FipsGetRow
    \/ FipsReturn

SpecFips == InitFips /\ [][NextFips]_vars

(***************************************************************************)
(* utils.update_progress_bar                                               *)
(***************************************************************************)
\* the default of update_every_x_percent
UpdateEveryXPercent == 1

\* int(100 / update_every_x_percent): the number of points of the linspace
LinspaceNum == 100 \div UpdateEveryXPercent

\* the line totals tried; i runs over 0..num_lines for each
ProgressTotals == {0, 1, 2, 3, 7, 99, 100, 150}

\* line 38, int(i / num_lines * 100), for 0 <= i <= num_lines, num_lines > 0.
\* The quotient and the product are rounded floats: where i * 100 / num_lines
\* is a whole number q, the product can fall just below q and int() gives
\* q - 1 (int(29 / 100 * 100) is 28); 0 and 100 are exact.
PercentOutcomes(i, n) ==
    LET q == (i * 100) \div n
    IN  IF (i * 100) % n = 0 /\ 0 < i /\ i < n THEN {q - 1, q} ELSE {q}

\* the k-th point of np.linspace(0, n, LinspaceNum), k * n / (LinspaceNum - 1),
\* is a whole number
ExactPoint(k, n) == (k * n) % (LinspaceNum - 1) = 0

\* np.floor of the k-th point, were it computed exactly
FloorPoint(k, n) == (k * n) \div (LinspaceNum - 1)

\* lines 39-43: i is in update_at_these_indices whatever the rounding of
\* the points (the first and the last point are exact)
CertainIndex(i, n) ==
    \E k \in 0..(LinspaceNum - 1) :
        /\ FloorPoint(k, n) = i
        /\ k \in {0, LinspaceNum - 1} \/ ~ExactPoint(k, n)

\* lines 39-43: i is in update_at_these_indices for some rounding of the
\* points: a point that is a whole number j may be computed just below j
\* and floored to j - 1
PossibleIndex(i, n) ==
    \/ CertainIndex(i, n)
    \/ \E k \in 1..(LinspaceNum - 2) :
          /\ ExactPoint(k, n)
          /\ FloorPoint(k, n) \in {i, i + 1}

\* lines 27-45
update_progress_bar ==
    /\ p_pc = "idle"
    /\ IF p_bar = "None" \/ p_text = "None"
       THEN /\ p_pc' = "returned"
            /\ UNCHANGED << p_calls, p_exc >>
       ELSE IF p_n = 0
       THEN \* i / num_lines
            /\ p_pc' = "raised"
            /\ p_exc' = "ZeroDivisionError"
            /\ UNCHANGED p_calls
       ELSE /\ \E percent_complete \in PercentOutcomes(p_i, p_n) :
               \E hit \in { b \in BOOLEAN :
                              /\ CertainIndex(p_i, p_n) => b
                              /\ b => PossibleIndex(p_i, p_n) } :
                  p_calls' = IF hit
                             THEN << << "progress", percent_complete >>,
                                     << "text", percent_complete >> >>
                             ELSE << >>
            /\ p_pc' = "returned"
            /\ UNCHANGED p_exc
    /\ UNCHANGED << p_bar, p_text, p_i, p_n, fipsVars, parseVars, geoVars >>

InitProg ==
    /\ ParseIdle
    /\ GeoIdle
    /\ FipsIdle
    /\ p_bar \in {"None", "sink"}
    /\ p_text \in {"None", "sink"}
    /\ p_n \in ProgressTotals
    /\ p_i \in 0..p_n
    /\ p_pc = "idle"
    /\ p_calls = << >>
    /\ p_exc = ""

NextProg == update_progress_bar

SpecProg == InitProg /\ [][NextProg]_vars

(***************************************************************************)
(* Properties                                                              *)
(***************************************************************************)
\* the messages add_log_entry finished building: when it raised, the last
\* message of the collection is the one it was still filling
BuiltEvents ==
    IF pc = "raised" /\ result = "" /\ Len(ssh_logs) > 0
    THEN 1..(Len(ssh_logs) - 1)
    ELSE 1..Len(ssh_logs)

\* the numbers of the first n lines of src that the pattern matches, ascending
RECURSIVE MatchingUpTo(_, _)
MatchingUpTo(src, n) ==
    IF n = 0 THEN << >>
    ELSE IF re_match(src[n]) # None
         THEN Append(MatchingUpTo(src, n - 1), n)
         ELSE MatchingUpTo(src, n - 1)

\* a line the pattern matches but whose timestamp or port cannot be coerced
Malformed(line) ==
    /\ re_match(line) # None
    /\ \/ strptime(re_match(line)[1].g1) = None
       \/ ~PortFits(PyInt(re_match(line)[1].g6))

\* C1: while parse_logs scans, a line the pattern does not match at its
\* start leaves the collection as it was (no message appended, none
\* changed), makes no geo lookup, raises nothing, and the loop goes on to
\* the next line.
C1_NonMatchingLineSkipped ==
    [][ (pc = "scanning" /\ idx < Len(source)
           /\ re_match(source[idx + 1]) = None)
        => (/\ ssh_logs' = ssh_logs
            /\ origin' = origin
            /\ lookups' = lookups
            /\ exc' = exc
            /\ idx' = idx + 1
            /\ pc' = "scanning") ]_vars

\* C1 witness: a matching line gave a message, then a line that holds the
\* pattern but not at its start was scanned, and the message is still there
C1_Witness ==
    /\ pc = "scanning"
    /\ idx = 2
    /\ re_match(source[1]) # None
    /\ source[2] = LineNotAtStart
    /\ Len(ssh_logs) = 1
    /\ lookups # << >>

\* the i-th message of the returned collection carries the fields of the
\* i-th line the pattern matches
EventsInLineOrder ==
    result = "SSHLogs" =>
        /\ origin = MatchingUpTo(source, Len(source))
        /\ Len(ssh_logs) = Len(origin)
        /\ \A i \in 1..Len(ssh_logs) :
              LET m == re_match(source[origin[i]])[1]
              IN  /\ ssh_logs[i].user = m.g4
                  /\ ssh_logs[i].ipAddress = m.g5
                  /\ ssh_logs[i].port = PyInt(m.g6)
                  /\ ssh_logs[i].timestamp =
                        << FromDatetime(replace_year(strptime(m.g1)[1],
                                                     FallbackYear)[1]) >>

\* the i-th row of the table is the i-th message of the collection
RowsInEventOrder ==
    pc = "projected" =>
        /\ Len(df) = Len(ssh_logs)
        /\ \A i \in 1..Len(df) :
              /\ df[i].user = ssh_logs[i].user
              /\ df[i].ipAddress = ssh_logs[i].ipAddress
              /\ df[i].port = ssh_logs[i].port
              /\ df[i].timestamp = ssh_logs[i].timestamp[1]

\* C2: the messages of the collection parse_logs returns are in the order
\* of the source lines they came from (the i-th message from the i-th
\* matching line), the rows of df_from_parsed_logs are in the order of the
\* messages, and a second call on the same collection gives the same rows
\* in the same order.
C2_OrderKept ==
    /\ [](EventsInLineOrder /\ RowsInEventOrder)
    /\ [][ (pc = "projected" /\ pc' = "projected") => df' = df ]_vars

\* C2 witness: a table of three rows from three different lines, made twice
C2_Witness ==
    /\ pc = "projected"
    /\ projections = 2
    /\ Len(df) = 3
    /\ df[1].user # df[2].user
    /\ df[2].user # df[3].user
    /\ df[1].ipAddress # df[2].ipAddress

\* C3 (as claimed): once df_from_parsed_logs has been called on the
\* collection parse_logs returned, it has returned a table whose row count
\* is the number of lines the pattern matches minus the number of malformed
\* lines; a source in which no line matches gives a table of no rows.
C3_RowCountAlways ==
    (result = "SSHLogs" /\ projections >= 1) =>
        /\ pc = "projected"
        /\ Len(df) = Len(MatchingUpTo(source, Len(source)))
                       - Cardinality({ i \in 1..Len(source) :
                                          Malformed(source[i]) })

\* C4 (as claimed): scanning a line that matches the pattern but has a
\* field that cannot be coerced drops that line only: parse_logs raises
\* nothing, the collection is as it was and the scan goes on.
C4_MalformedLineDropped ==
    [][ (pc = "scanning" /\ idx < Len(source) /\ Malformed(source[idx + 1]))
        => (/\ pc' = "scanning"
            /\ exc' = ""
            /\ ssh_logs' = ssh_logs
            /\ idx' = idx + 1) ]_vars

\* C5: parse_logs raises the argument error exactly when both or neither
\* of logfile_path and logfile are supplied (not None), and then no file
\* was opened, no line read, no message built and no lookup made; with
\* exactly one supplied it never raises that error.
C5_ArgumentCheckFirst ==
    LET both_or_neither == (logfile_path = "None") = (logfile = "None")
    IN  /\ (pc # "idle" /\ both_or_neither)
              => (pc = "raised" /\ exc = "ValueError:args")
        /\ exc = "ValueError:args"
              => (/\ both_or_neither
                  /\ ~opened
                  /\ idx = 0
                  /\ ssh_logs = << >>
                  /\ lookups = << >>
                  /\ result = "")
        /\ ~both_or_neither => exc # "ValueError:args"

\* C5 witness: a call with both a path and a stream, over a source that
\* has lines, was rejected
C5_Witness ==
    /\ pc = "raised"
    /\ exc = "ValueError:args"
    /\ logfile_path = "valid"
    /\ logfile = "valid"
    /\ Len(source) > 0

\* C6 (as claimed): every call of parse_logs that does not raise returns a
\* collection, also when the one argument supplied is not None but false.
C6_ReturnsCollection == pc \in {"returned", "projected"} => result = "SSHLogs"

\* C7: every message built from a matching line has validLoginAttempt true
\* when the line's outcome word is "Accepted", false when it is "Failed".
C7_ValidLoginAttempt ==
    \A i \in BuiltEvents :
        LET line == source[origin[i]]
            k    == CHOOSE x \in OutcomePlaces(line) :
                        \A y \in OutcomePlaces(line) : x <= y
        IN  /\ EndsWith(line[k], kwAccepted)
                 => ssh_logs[i].validLoginAttempt = TRUE
            /\ EndsWith(line[k], kwFailed)
                 => ssh_logs[i].validLoginAttempt = FALSE

\* C7 witness: a returned collection with a message of an accepted and a
\* message of a failed attempt
C7_Witness ==
    /\ result = "SSHLogs"
    /\ Len(ssh_logs) >= 2
    /\ source[origin[1]] = LineAccepted
    /\ ssh_logs[1].validLoginAttempt
    /\ source[origin[2]] = LineInvalidUser
    /\ ~ssh_logs[2].validLoginAttempt

\* whether the words "invalid user" stand right before token u of the line
MarkerBefore(line, u) ==
    u >= 3 /\ line[u - 2] = kwInvalid /\ line[u - 1] = kwUser

\* C8: every message built from a matching line has usernameIsValid false
\* when "invalid user " stands right before the user name in the line and
\* true otherwise; the user field is the text between that place and
\* " from", so the marker is not part of it.
C8_UsernameIsValid ==
    \A i \in BuiltEvents :
        LET line == source[origin[i]]
            m    == re_match(line)[1]
        IN  /\ ssh_logs[i].usernameIsValid = ~MarkerBefore(line, m.userFrom)
            /\ ssh_logs[i].user = Join(SubSeq(line, m.userFrom, m.userTo))
            /\ line[m.userTo + 1] = kwFrom

\* C8 witness: a returned collection with a message from a line that has
\* the marker and a message from a line that has not
C8_Witness ==
    /\ result = "SSHLogs"
    /\ Len(ssh_logs) >= 2
    /\ source[origin[1]] = LineInvalidUser
    /\ ~ssh_logs[1].usernameIsValid
    /\ ssh_logs[1].user = tRoot
    /\ source[origin[2]] = LineAccepted
    /\ ssh_logs[2].usernameIsValid

\* C9 (as claimed): lookup_ip never raises, whatever the address, and for
\* an address the database does not hold it returns the default GeoInfo.
C9_LookupNeverRaises ==
    /\ g_pc # "raised"
    /\ (g_pc = "returned" /\ g_ip \notin DOMAIN g_db) => g_out.geo = DefaultGeo

\* C10 (as claimed): for every record the database returns, whatever parts
\* of it are absent, lookup_ip returns and the parts that are present are
\* in the GeoInfo returned.
C10_PartialRecordTolerated ==
    (g_pc # "idle" /\ WellFormedIP(g_ip) /\ g_ip \in DOMAIN g_db) =>
        /\ g_pc = "returned"
        /\ "continent" \in g_db[g_ip] => g_out.geo.continent = "EU"
        /\ "country" \in g_db[g_ip] => g_out.geo.country_iso_code = "PT"
        /\ "country" \in g_db[g_ip] => g_out.geo.country_name = "Portugal (PT)"
        /\ "subdivisions" \in g_db[g_ip]
              => g_out.geo.subdivisions = << "11", "06" >>
        /\ "city" \in g_db[g_ip] => g_out.geo.city = "Lisbon"
        /\ "postal" \in g_db[g_ip] => g_out.geo.postal_code = "1000"
        /\ "location" \in g_db[g_ip]
              => (g_out.geo.lat = 38 /\ g_out.geo.lon = -9)
        /\ "timezone" \in g_db[g_ip] => g_out.geo.timezone = "Europe/Lisbon"

\* C11 (as claimed): at every point of a parse, lookup_ip has been called
\* exactly once for each message appended to the collection, with that
\* message's ipAddress: as many lookups as messages, in the same order.
C11_LookupPerEvent ==
    /\ Len(lookups) = Len(ssh_logs)
    /\ \A i \in 1..Len(ssh_logs) :
          /\ i <= Len(lookups)
          /\ lookups[i] = ssh_logs[i].ipAddress
          /\ lookups[i] = re_match(source[origin[i]])[1].g5

\* the columns of the table: the message's scalar fields, the fields of
\* ipLookupData and the three columns taken from the timestamp
AllColumns ==
    { "timestamp", "validLoginAttempt", "usernameIsValid", "user",
      "ipAddress", "port", "lat", "lon", "continent", "countryIsoCode",
      "countryName", "subdivisions", "timezone", "postalCode", "city",
      "date", "week", "hour" }

MonthNo(tok) == CHOOSE k \in 1..12 : MonthAbbr[k] = tok

\* the (date, hour) group of the i-th message, from its timestamp
EventGroup(i) ==
    << DateStr(DateOf(ssh_logs[i].timestamp[1])),
       Str(HourOf(ssh_logs[i].timestamp[1])) >>

\* the (date, hour) group of the i-th row, from its date and hour columns
RowGroup(i) == << df[i].date, df[i].hour >>

\* C13: in the table of every collection, a row's date column is the
\* calendar date and its hour column the hour of day (0 to 23) that the
\* timestamp token of the row's line names (in the year 2022), and each
\* (date, hour) group has as many rows as the collection has messages
\* whose timestamp falls in it.
C13_DateHourColumns ==
    pc = "projected" =>
        /\ \A i \in 1..Len(df) :
              LET line == source[origin[i]]
              IN  /\ df[i].date = DateStr(<< FallbackYear, MonthNo(line[1]),
                                             ToInt(line[2]) >>)
                  /\ df[i].hour = Str(ToInt(Split(line[3], ":")[1]))
                  /\ ToInt(df[i].hour) \in 0..23
        /\ \A g \in { RowGroup(i) : i \in 1..Len(df) }
                      \cup { EventGroup(i) : i \in 1..Len(ssh_logs) } :
              Cardinality({ i \in 1..Len(df) : RowGroup(i) = g })
                = Cardinality({ i \in 1..Len(ssh_logs) : EventGroup(i) = g })

\* C13 witness: a table with two rows of 27 March, hour 13, and one row of
\* 31 December, hour 23
C13_Witness ==
    /\ pc = "projected"
    /\ Len(df) = 3
    /\ Cardinality({ i \in 1..3 : df[i].hour = << "1", "3" >> }) = 2
    /\ \E i \in 1..3 :
          /\ df[i].hour = << "2", "3" >>
          /\ df[i].date = << "2", "0", "2", "2", "-", "1", "2", "-", "3", "1" >>

\* C14: the timestamp of every message add_log_entry built names the
\* month, day, hour, minute and second of the timestamp token of the
\* message's line, in the year 2022.
C14_TimestampOfToken ==
    \A i \in BuiltEvents :
        LET line == source[origin[i]]
            hms  == Split(line[3], ":")
            secs == ssh_logs[i].timestamp[1]
        IN  /\ DateOf(secs) = << 2022, MonthNo(line[1]), ToInt(line[2]) >>
            /\ HourOf(secs) = ToInt(hms[1])
            /\ (secs % 3600) \div 60 = ToInt(hms[2])
            /\ secs % 60 = ToInt(hms[3])

\* C14 witness: the line stamped "Dec 31 23:59:59" gave a message whose
\* timestamp is the last second of 2022
C14_Witness ==
    /\ pc = "returned"
    /\ source = << StampLine(tDec, t31, tTime3) >>
    /\ Len(ssh_logs) = 1
    /\ ssh_logs[1].timestamp = << 1672531199 >>

\* C15 (as claimed): when both df and csv_path are supplied, and when
\* neither is, get_US_fips_data_from_lat_lon raises the argument error
\* (ValueError) and has read no file and made no request.
C15_BothOrNeitherRejected ==
    (f_pc # "idle" /\ ~f_extra /\ ((f_df = None) <=> (f_csv = "None"))) =>
        /\ f_pc = "raised"
        /\ f_exc = "ValueError"
        /\ f_io = << >>

\* C15 (amended): get_US_fips_data_from_lat_lon raises the argument error
\* exactly when the argument its data source needs is missing (csv_path
\* for CSV, df for FCC_API), and then it has read no file and made no
\* request; so it raises when neither is supplied, and never because both
\* are.
C15_NeededArgumentChecked ==
    (f_pc # "idle" /\ ~f_extra) =>
        /\ f_exc = "ValueError"
              <=> \/ f_source = "csv" /\ f_csv = "None"
                  \/ f_source = "fcc_api" /\ f_df = None
        /\ f_exc = "ValueError" => (f_pc = "raised" /\ f_io = << >>)
        /\ (f_df = None /\ f_csv = "None") => f_exc = "ValueError"
        /\ (f_df # None /\ f_csv # "None") => f_exc # "ValueError"

\* C15 witness: called with neither argument, for the CSV source, it has
\* raised the argument error before any read
C15_Witness ==
    /\ f_pc = "raised"
    /\ f_exc = "ValueError"
    /\ f_source = "csv"
    /\ f_df = None
    /\ f_csv = "None"
    /\ ~f_extra
    /\ f_io = << >>

\* C16 (as claimed): on a source with no malformed line, parse_logs never
\* stops inside the scan: once it has started to read lines it raises
\* nothing, and when it has returned, every line was consumed (once, in
\* order) and the collection is the one built from all of them.
C16_ScansToTheEnd ==
    (\A n \in 1..Len(source) : ~Malformed(source[n])) =>
        /\ (pc = "raised" /\ result = "")
              => exc \in {"ValueError:args", "FileNotFoundError"}
        /\ result = "SSHLogs"
              => /\ idx = Len(source)
                 /\ origin = MatchingUpTo(source, Len(source))

\* C17: the collection only grows at its end: every step of a parse (one
\* line scanned, the return, a projection) leaves the collection as it
\* was or appends exactly one message after the ones it held, which stay
\* as they were and where they were; so the collection after k lines is a
\* prefix of the collection after k + 1 lines.
C17_AppendOnly ==
    [][ \/ ssh_logs' = ssh_logs
        \/ /\ pc = "scanning"
           /\ idx' = idx + 1
           /\ Len(ssh_logs') = Len(ssh_logs) + 1
           /\ SubSeq(ssh_logs', 1, Len(ssh_logs)) = ssh_logs ]_vars

\* C17 witness: three lines scanned, the second one skipped, and the
\* collection holds the message of the first line, then that of the third
C17_Witness ==
    /\ pc = "scanning"
    /\ idx = 3
    /\ Len(ssh_logs) = 2
    /\ origin = << 1, 3 >>
    /\ ssh_logs[1].user = tUbuntu
    /\ ssh_logs[2].user = tRoot

\* C18 (as claimed): a call of add_log_entry that raises (timestamp, port
\* or lookup) leaves the collection it was given holding the same messages
\* as before the call.
C18_AllOrNothing ==
    [][ (pc = "scanning" /\ pc' = "raised") => ssh_logs' = ssh_logs ]_vars

\* C19 (as claimed): for every i and num_lines with 0 <= i <= num_lines,
\* num_lines = 0 included, update_progress_bar returns normally, it calls
\* the sinks only when both progress_bar and status_text are supplied, and
\* the percentage it then reports is between 0 and 100.
C19_ProgressObservational ==
    p_pc # "idle" =>
        /\ p_pc = "returned"
        /\ p_exc = ""
        /\ p_calls # << >> => (p_bar # "None" /\ p_text # "None")
        /\ \A c \in 1..Len(p_calls) : p_calls[c][2] \in 0..100

====
